---- MODULE Spec2Model ----
(***************************************************************************)
(* stateful-observable: the engine (statefulObservable), its rolling       *)
(* cache (createCache), the derived nodes (pipeValue, pipeError) and the   *)
(* shared broadcast of every node (defaultCache = shareReplay with         *)
(* bufferSize 1 and refCount).                                             *)
(*                                                                         *)
(* One action is one external stimulus (a subscription, an unsubscription, *)
(* a source notification, reload(), the completion of an asynchronous      *)
(* loader call or operator chain) together with everything RxJS delivers   *)
(* synchronously because of it.                                            *)
(***************************************************************************)
EXTENDS Integers, Sequences, FiniteSets, TLC

\* ------------------------------------------------------------------ bounds
\* Causal stimuli (subscriptions, source notifications, reloads) per behaviour.
MaxEvents == 3

\* Values the source emits; the synthetic trigger of(true) is modelled as 1.
Inputs == {1, 2}
\* Values a loader produces: 0 is a falsy JavaScript value, 5 a truthy one.
LoaderResults == {0, 5}
\* Error payloads by origin.
Err == [loader |-> 7, source |-> 8, thrown |-> 9, chain |-> 6]

\* ------------------------------------------------------------ envelopes
Loading(ev) == [k |-> "L", p |-> 0, ev |-> ev]
Value(p, ev) == [k |-> "V", p |-> p, ev |-> ev]
Error(p, ev) == [k |-> "E", p |-> p, ev |-> ev]

isLoading(r) == r.k = "L"
isError(r) == r.k = "E"
isSuccess(r) == ~isLoading(r) /\ ~isError(r)

Range(s) == {s[i] : i \in 1..Len(s)}
Remove(s, S) == SelectSeq(s, LAMBDA x : x \notin S)

\* ------------------------------------------------------------ rolling cache
\* A cache is [capacity, map]: map is the Map's entries in insertion order.
Null == -1
NoKey == ""

\* A cache whose capacity is never below one.
createCacheAtLeastOne(size) == [capacity |-> IF size < 1 THEN 1 ELSE size, map |-> <<>>]

\* Math.ceil of a size written in halves.
Ceiling(halves) == (halves + 1) \div 2

\* Math.floor of a size written in halves: 3 is 1.5, -1 is -0.5.
Floor(halves) == halves \div 2

\* createCache for a whole size: capacity = Math.max(0, size).
createCache(size) == [capacity |-> IF size < 0 THEN 0 ELSE size, map |-> <<>>]

MapHas(m, key) == \E i \in 1..Len(m) : m[i][1] = key
MapGet(m, key) == m[CHOOSE i \in 1..Len(m) : m[i][1] = key][2]
MapDelete(m, key) == SelectSeq(m, LAMBDA e : e[1] # key)

RECURSIVE Evict(_, _)
Evict(m, capacity) == IF Len(m) > capacity THEN Evict(Tail(m), capacity) ELSE m

\* set that overwrites a present key where it is, without reinserting it.
CacheSetInPlace(c, key, value) ==
  IF c.capacity = 0 THEN c
  ELSE IF MapHas(c.map, key)
       THEN [c EXCEPT !.map = [i \in 1..Len(c.map) |->
                                 IF c.map[i][1] = key THEN <<key, value>> ELSE c.map[i]]]
       ELSE [c EXCEPT !.map = Evict(Append(c.map, <<key, value>>), c.capacity)]

CacheSet(c, key, value) ==
  IF c.capacity = 0 THEN c
  ELSE [c EXCEPT !.map = Evict(Append(MapDelete(c.map, key), <<key, value>>), c.capacity)]

\* reset: map.clear().
CacheReset(c) == [c EXCEPT !.map = <<>>]

\* get returns the value (Null on a miss) and moves a hit to the newest position.
CacheGetValue(c, key) == IF MapHas(c.map, key) THEN MapGet(c.map, key) ELSE Null
\* get that leaves a hit where it is: first in, first out.
CacheGetAfterFifo(c, key) == c

CacheGetAfter(c, key) ==
  IF MapHas(c.map, key)
  THEN [c EXCEPT !.map = Append(MapDelete(c.map, key), <<key, MapGet(c.map, key)>>)]
  ELSE c

\* A stream of envelopes nobody has emitted on yet.
FacOff == [raw |-> <<>>, done |-> FALSE, fn |-> <<>>, ob |-> <<>>,
           value |-> <<>>, error |-> <<>>, pending |-> <<>>]
\* A cache of its own before createCache is called.
RcOff == [made |-> FALSE]

\* JavaScript truthiness of a cached value: `if (cached)`.
Truthy(v) == v # Null /\ v # 0

\* ------------------------------------------------------------ configuration
\* cacheKey(input).join("|"): "none" is the default () => [], "id" is x => [x],
\* "partial" yields a key for input 1 only.
KeyStr == [i \in Inputs |-> IF i = 1 THEN "1" ELSE "2"]
cacheKey(mode, input) ==
  CASE mode = "id" -> KeyStr[input]
    [] mode = "partial" -> IF input = 1 THEN KeyStr[input] ELSE NoKey
    [] OTHER -> NoKey

\* The lineage: node 0 is the engine's node, 1 = root.pipeValue(...),
\* 2 = root.pipeError(...), 3 = node 2's pipeValue(...).
Nodes == {0, 1, 2, 3}
Kind == [n \in Nodes |-> IF n = 0 THEN "root" ELSE IF n = 2 THEN "pipeError" ELSE "pipeValue"]
Parent == [n \in Nodes |-> IF n = 3 THEN 2 ELSE 0]

\* index = prevIndex + 1, the engine passing -1.
RECURSIVE NodeIndex(_)
\* A derived node taking its parent's index as it is.
NodeIndexOfParent(n) == IF n = 0 THEN -1 + 1 ELSE NodeIndex(Parent[n])

NodeIndex(n) == IF n = 0 THEN -1 + 1 ELSE NodeIndex(Parent[n]) + 1
Index == [n \in Nodes |-> NodeIndex(n)]

\* pipeValue(map(v => v + 10)); pipeError(map(e => e + '1')) appends a digit.
ChainMap(v) == v + 10
ErrorMap(e) == e * 10 + 1

VARIABLES
  cfg,          \* the options of statefulObservable and the nodes that are used
  source,       \* the input subject: [last, status]
  cache,        \* cache$'s current value: the index of the current generation
  evCount,      \* number of causal stimuli so far (names the events)
  gens,         \* every cache generation ever created
  loading,      \* loading$'s subscription: [alive, has, input]
  valueOrError, \* valueOrError$'s subscription: [alive, has, input, jobs]
  subs,         \* per node: the observers of its shared subject, in order
  buf,          \* per node: the replay buffer (at most one envelope)
  status,       \* per node: "idle", "live" or "completed"
  hist,         \* per node: the envelopes its raw emitted in this connection
  calls,        \* the loader invocations so far
  writes,       \* the results the loader's tap stored in a cache generation
  pvq,          \* per pipeValue node: concatMap's active inner and its buffer
  der,          \* per derived node: which of its two branches completed
  seen,         \* per derived node: index in the parent's hist it observes from
  term,         \* per node: a terminating error notification reached consumers
  comb,         \* a combined node over two engines of their own, and those engines
  meta,         \* the lineage's shared counter of error$ subscriptions
  warns,        \* the 'Unhandled error' warnings written so far
  logs,         \* the calls made on the log function given to the engine
  sent,         \* per node: how many envelopes its raw has emitted in all
  rc,           \* a rolling cache on its own, with the calls made on it
  fac,          \* a stream of envelopes on its own, with what its consumers received
  born          \* per cache generation: the event whose reload() created it

vars == <<cfg, source, cache, evCount, gens, loading, valueOrError, subs, buf,
          status, hist, calls, writes, pvq, der, seen, term, comb,
          meta, warns, logs, sent, rc, fac, born>>

\* The state the synchronous delivery works on, with this action's inputs:
\* ev names the stimulus, lo is what the loader does if it is invoked for it,
\* pc is what the derived node's operators do with the value they receive.
World(ev, lo, pc) ==
  [cfg |-> cfg, source |-> source, cache |-> cache, gens |-> gens,
   loading |-> loading, valueOrError |-> valueOrError, subs |-> subs,
   buf |-> buf, status |-> status, hist |-> hist, calls |-> calls,
   writes |-> writes, pvq |-> pvq, der |-> der, seen |-> seen, term |-> term,
   meta |-> meta, warns |-> warns, logs |-> logs, sent |-> sent,
   ev |-> ev, lo |-> lo, pc |-> pc]

LdOff == [st |-> "off", has |-> FALSE, input |-> 0]
VeOff == [st |-> "off", has |-> FALSE, input |-> 0, ev |-> 0, jobs |-> <<>>]
PvOff == [active |-> <<>>, queue |-> <<>>]
DerOff == [a |-> FALSE, b |-> FALSE]

RECURSIVE Teardown(_, _)
RECURSIVE Emit(_, _, _)
RECURSIVE DeliverAll(_, _, _, _)
RECURSIVE Deliver(_, _, _)
RECURSIVE Drain(_, _)
RECURSIVE Complete(_, _)
RECURSIVE NotifyAll(_, _)
RECURSIVE CheckComplete(_, _)
RECURSIVE NodeError(_, _)
RECURSIVE ErrorAll(_, _, _)

\* ------------------------------------------------ defaultCache (shareReplay)
\* A reset at refCount zero that keeps the subject and its replay buffer.
TeardownKeepReplay(W, n) ==
  LET W1 == [W EXCEPT !.status[n] = "idle", !.subs[n] = <<>>]
  IN IF Kind[n] = "root"
     THEN [W1 EXCEPT !.loading = LdOff, !.valueOrError = VeOff]
     ELSE LET p == Parent[n]
              W2 == [W1 EXCEPT !.pvq[n] = PvOff, !.der[n] = DerOff,
                               !.subs[p] = Remove(@, {<<"a", n>>, <<"b", n>>})]
          IN IF W2.status[p] = "live" /\ W2.subs[p] = <<>> THEN Teardown(W2, p) ELSE W2

\* refCount reached zero (or the source errored): the connection to the
\* upstream is dropped and the subject with its replay buffer is discarded.
Teardown(W, n) ==
  LET W1 == [W EXCEPT !.status[n] = "idle", !.buf[n] = <<>>, !.subs[n] = <<>>]
  IN IF Kind[n] = "root"
     THEN [W1 EXCEPT !.loading = LdOff, !.valueOrError = VeOff]
     ELSE LET p == Parent[n]
              W2 == [W1 EXCEPT !.pvq[n] = PvOff, !.der[n] = DerOff,
                               !.subs[p] = Remove(@, {<<"a", n>>, <<"b", n>>})]
          IN IF W2.status[p] = "live" /\ W2.subs[p] = <<>> THEN Teardown(W2, p) ELSE W2

\* The subject passes an error to its observers in subscription order: a
\* derived node's merge fails with it, and so does that node's raw.
ErrorAll(W, n, ss) ==
  IF ss = <<>> THEN W
  ELSE LET s == Head(ss)
           W1 == IF s[1] \in {"a", "b"} /\ s \in Range(W.subs[n]) /\ W.status[s[2]] = "live"
                 THEN NodeError(W, s[2]) ELSE W
       IN ErrorAll(W1, n, Tail(ss))

\* An error notification on node n's raw: share passes it to the consumers and
\* resets (resetOnError).
NodeError(W, n) == Teardown(ErrorAll([W EXCEPT !.term[n] = TRUE], n, W.subs[n]), n)

\* The projected chain without its catchResponseError: a failure is an error
\* notification of the node's raw.
ChainEmitUncaught(W, d, item, ok) ==
  IF ok THEN Emit(W, d, Value(ChainMap(item.v.p), item.v.ev)) ELSE NodeError(W, d)

\* concatMap's project in pipeValue: applyPipe(of(v), operations) with
\* catchResponseError; item.plan is what the operators do with this value.
ChainEmit(W, d, item, ok) ==
  IF ok THEN Emit(W, d, Value(ChainMap(item.v.p), item.v.ev))
  ELSE Emit(W, d, Error(Err.chain, item.v.ev))

\* A tap that reports an Error at the engine's node only.
sideEffectRootOnly(W, n, value) ==
  IF isError(value) /\ W.meta = 0 /\ n = 0
  THEN [W EXCEPT !.warns = Append(@, [node |-> n, index |-> Index[n],
                                      error |-> value.p, ev |-> value.ev])]
  ELSE W

\* The default name of an engine.
Name == "unnamed"

\* flattenResponse: what the log function is handed for a settled envelope.
flattenResponse(response) ==
  IF isError(response) THEN [what |-> "error", p |-> response.p]
  ELSE [what |-> "value", p |-> response.p]

\* One call log(value, name, index) of the log function; ev names the event
\* the value belongs to.
LogCall(W, value, index, ev) ==
  [W EXCEPT !.logs = Append(@, [value |-> value, name |-> Name, index |-> index,
                                ev |-> ev])]

\* The tap in front of a node's defaultCache. The engine's node has the log
\* function when one is given (pipe, pipeValue and pipeError do not hand it
\* on): every envelope that is not Loading is logged. Without it an Error
\* envelope is reported with console.error unless the lineage's counter of
\* error$ subscriptions is positive.
sideEffect(W, n, value) ==
  IF W.cfg.log /\ n = 0
  THEN IF ~isLoading(value) THEN LogCall(W, flattenResponse(value), Index[n], value.ev)
       ELSE W
  ELSE IF isError(value) /\ W.meta = 0
  THEN [W EXCEPT !.warns = Append(@, [node |-> n, index |-> Index[n],
                                      error |-> value.p, ev |-> value.ev])]
  ELSE W

\* Node n's raw emits env: the replay subject stores it and hands it to the
\* observers it has at this moment, in subscription order.
Emit(W, n, env) ==
  IF W.status[n] # "live" THEN W
  ELSE LET W1 == [sideEffect(W, n, env) EXCEPT
                    !.hist[n] = Append(@, env), !.buf[n] = <<env>>,
                    !.sent[n] = @ + 1]
       IN DeliverAll(W1, n, W1.subs[n], env)

DeliverAll(W, n, ss, env) ==
  IF ss = <<>> THEN W
  ELSE LET s == Head(ss)
           W1 == IF s \in Range(W.subs[n]) THEN Deliver(W, s, env) ELSE W
       IN DeliverAll(W1, n, Tail(ss), env)

\* pipeValue = merge(rawNotValue, rawPipedValue): branch a is the first
\* subscription, branch b the second.
pipeValue(W, d, branch, env) ==
  IF branch = "a"
  THEN IF ~isSuccess(env) THEN Emit(W, d, env) ELSE W
  ELSE IF ~isSuccess(env) THEN W
       ELSE LET item == [v |-> env, plan |-> W.pc]
            IN Drain([W EXCEPT !.pvq[d].queue = Append(@, item)], d)

\* pipeError = merge(rawPipedError, rawNotError): the operators run on the
\* error payloads with no catchResponseError around them.
pipeError(W, d, branch, env) ==
  IF branch = "a"
  THEN IF ~isError(env) THEN W
       ELSE IF W.pc = "throw" THEN NodeError(W, d)
            ELSE Emit(W, d, Error(ErrorMap(env.p), env.ev))
  ELSE IF ~isError(env) THEN Emit(W, d, env) ELSE W

Deliver(W, s, env) ==
  IF s[1] \in {"c", "e"} THEN W
  ELSE IF Kind[s[2]] = "pipeValue" THEN pipeValue(W, s[2], s[1], env)
       ELSE pipeError(W, s[2], s[1], env)

\* The operators gave their result and did not complete (an inner observable
\* that stays open): the value's chain remains concatMap's active inner.
StayOpen(W, d, item) ==
  IF W.status[d] = "live"
  THEN [W EXCEPT !.pvq[d].active = <<[item EXCEPT !.plan = "emitted"]>>] ELSE W

\* concatMap: with no inner active, the next buffered value is projected.
Drain(W, d) ==
  IF W.status[d] # "live" \/ W.pvq[d].active # <<>> \/ W.pvq[d].queue = <<>>
  THEN CheckComplete(W, d)
  ELSE LET item == Head(W.pvq[d].queue)
           W1 == [W EXCEPT !.pvq[d].queue = Tail(@)]
       IN IF item.plan = "async" THEN [W1 EXCEPT !.pvq[d].active = <<item>>]
          ELSE IF item.plan = "open" THEN StayOpen(ChainEmit(W1, d, item, TRUE), d, item)
          ELSE Drain(ChainEmit(W1, d, item, item.plan = "sync"), d)

\* Node n's raw completed: the subject completes its observers and keeps its
\* buffer for late subscribers (resetOnComplete: false).
Complete(W, n) ==
  LET ss == W.subs[n]
      W1 == [W EXCEPT !.status[n] = "completed", !.subs[n] = <<>>]
  IN NotifyAll(W1, ss)

NotifyComplete(W, s) ==
  IF s[1] \in {"c", "e"} THEN W
  ELSE IF W.status[s[2]] # "live" THEN W
       ELSE CheckComplete([W EXCEPT !.der[s[2]][s[1]] = TRUE], s[2])

NotifyAll(W, ss) ==
  IF ss = <<>> THEN W ELSE NotifyAll(NotifyComplete(W, Head(ss)), Tail(ss))

\* merge completes when both branches completed and concatMap has drained.
CheckComplete(W, d) ==
  IF W.status[d] = "live" /\ W.der[d].a /\ W.der[d].b
     /\ W.pvq[d].active = <<>> /\ W.pvq[d].queue = <<>>
  THEN Complete(W, d) ELSE W

\* ------------------------------------------------------- statefulObservable
RECURSIVE Project(_, _)
RECURSIVE AfterInner(_)

\* raw = merge(loading$, valueOrError$) completes when both branches have.
CheckRootComplete(W) ==
  IF W.status[0] = "live" /\ W.loading.st = "done" /\ W.valueOrError.st = "done"
  THEN Complete(W, 0) ELSE W

\* The tap at the end of valueOrError$: log(flattenResponse(raw), name, 0).
valueOrErrorTap(W, raw) ==
  IF W.cfg.log /\ W.status[0] = "live"
  THEN LogCall(W, flattenResponse(raw), Index[0], raw.ev) ELSE W

\* valueOrError$ emits an envelope: through its tap into the merge.
valueOrErrorNext(W, raw) == Emit(valueOrErrorTap(W, raw), 0, raw)

\* The outer catchResponseError of valueOrError$: the error becomes an Error
\* envelope and valueOrError$ completes; every inner subscription is dropped.
VeDie(W, payload, ev) ==
  valueOrErrorNext([W EXCEPT !.valueOrError = [VeOff EXCEPT !.st = "done"]],
                   Error(payload, ev))

\* A tap that writes into whatever generation is current when the result
\* arrives.
InnerNextIntoCurrent(W, job, v) ==
  LET W1 == [W EXCEPT !.gens[W.cache] = CacheSet(@, job.key, v),
                      !.writes = Append(@, [ev |-> job.ev, gen |-> W.cache, key |-> job.key,
                                            newest |-> W.valueOrError.ev])]
  IN AfterInner(valueOrErrorNext(W1, Value(v, job.ev)))

\* The inner pipeline's tap: cache.set(key, result) on the generation the
\* event was combined with, then the result goes on to raw.
InnerNext(W, job, v) ==
  LET W1 == [W EXCEPT !.gens[job.gen] = CacheSet(@, job.key, v),
                      !.writes = Append(@, [ev |-> job.ev, gen |-> job.gen, key |-> job.key,
                                            newest |-> W.valueOrError.ev])]
  IN AfterInner(valueOrErrorNext(W1, Value(v, job.ev)))

\* The inner pipeline without its catchResponseError: the failure reaches the
\* outer one.
InnerErrorUncaught(W, job) == VeDie(W, Err.loader, job.ev)

\* The inner pipeline's catchResponseError: the loader's result failed.
InnerError(W, job) == AfterInner(valueOrErrorNext(W, Error(Err.loader, job.ev)))

\* The loader call of one event: from(makeObservableInput(input)); without a
\* loader the input itself is the result.
Load(W, job) ==
  LET held == job.key # NoKey /\ MapHas(W.gens[job.gen].map, job.key)
      call == [ev |-> job.ev, input |-> job.input, key |-> job.key, gen |-> job.gen,
               held |-> held]
      W1 == IF W.cfg.loader THEN [W EXCEPT !.calls = Append(@, call)] ELSE W
      plan == IF W.cfg.loader THEN job.plan ELSE [t |-> "sync", v |-> job.input]
  IN CASE plan.t = "throw" -> VeDie(W1, Err.thrown, job.ev)
       [] plan.t = "syncErr" -> InnerError(W1, job)
       [] plan.t = "sync" -> InnerNext(W1, job, plan.v)
       [] OTHER -> [W1 EXCEPT !.valueOrError.jobs = Append(@, [job EXCEPT !.started = TRUE])]

\* The first statement of the project function: log({ input }, name, 0).
logInput(W, job) ==
  IF W.cfg.log THEN LogCall(W, [what |-> "input", p |-> job.input], Index[0], job.ev)
  ELSE W

\* The project function handed to mapOperator.
Project(W, job) ==
  LET W0 == logInput(W, job)
  IN IF job.key # NoKey
     THEN LET c == W0.gens[job.gen]
              cached == CacheGetValue(c, job.key)
              W1 == [W0 EXCEPT !.gens[job.gen] = CacheGetAfter(c, job.key)]
          IN IF Truthy(cached) THEN AfterInner(valueOrErrorNext(W1, Value(cached, job.ev)))
             ELSE Load(W1, job)
     ELSE Load(W0, job)

\* An inner observable completed: concatMap projects the next buffered event.
AfterInner(W) ==
  LET jobs == W.valueOrError.jobs
  IN IF W.valueOrError.st = "on" /\ W.cfg.mapOperator = "concatMap"
        /\ jobs # <<>> /\ ~Head(jobs).started
     THEN Project([W EXCEPT !.valueOrError.jobs = Tail(@)], Head(jobs))
     ELSE W

\* An overlap policy that never cancels, whatever the option says.
mapOperatorKeepInFlight(W, input, gen) ==
  LET job == [input |-> input, gen |-> gen, key |-> cacheKey(W.cfg.cacheKey, input),
              ev |-> W.ev, plan |-> W.lo, started |-> FALSE]
  IN Project([W EXCEPT !.valueOrError.has = TRUE, !.valueOrError.input = input,
                       !.valueOrError.ev = W.ev], job)

\* valueOrError$'s combineLatest emits [input, cache generation].
mapOperator(W, input, gen) ==
  LET job == [input |-> input, gen |-> gen, key |-> cacheKey(W.cfg.cacheKey, input),
              ev |-> W.ev, plan |-> W.lo, started |-> FALSE]
      W1 == [W EXCEPT !.valueOrError.has = TRUE, !.valueOrError.input = input,
                      !.valueOrError.ev = W.ev]
  IN CASE W.cfg.mapOperator = "switchMap" -> Project([W1 EXCEPT !.valueOrError.jobs = <<>>], job)
       [] W.cfg.mapOperator = "mergeMap" -> Project(W1, job)
       [] OTHER -> IF W1.valueOrError.jobs # <<>>
                   THEN [W1 EXCEPT !.valueOrError.jobs = Append(@, job)]
                   ELSE Project(W1, job)

\* loading$'s combineLatest emits.
loadingNext(W, input) ==
  Emit([W EXCEPT !.loading.has = TRUE, !.loading.input = input], 0, Loading(W.ev))

\* The merge with its branches the other way round: valueOrError$ first.
TriggerValueFirst(W, input, gen) ==
  LET W1 == IF W.valueOrError.st = "on" THEN mapOperator(W, input, gen) ELSE W
  IN IF W1.loading.st = "on" THEN loadingNext(W1, input) ELSE W1

\* A new source value or a new cache generation reaches both branches,
\* loading$ first: it subscribed first.
Trigger(W, input, gen) ==
  LET W1 == IF W.loading.st = "on" THEN loadingNext(W, input) ELSE W
  IN IF W1.valueOrError.st = "on" THEN mapOperator(W1, input, gen) ELSE W1

\* The source fails: each branch's catchResponseError turns it into an Error
\* envelope and completes the branch.
SourceFailure(W) ==
  LET W1 == IF W.loading.st = "on"
            THEN Emit([W EXCEPT !.loading.st = "done"], 0, Error(Err.source, 0)) ELSE W
      W2 == IF W1.valueOrError.st = "on" THEN VeDie(W1, Err.source, 0) ELSE W1
  IN CheckRootComplete(W2)

\* The source completes: a combineLatest that has no value of it yet completes
\* with it, one that has goes on with cache$.
SourceCompletion(W) ==
  LET W1 == IF W.loading.st = "on" /\ ~W.loading.has
            THEN [W EXCEPT !.loading.st = "done"] ELSE W
      W2 == IF W1.valueOrError.st = "on" /\ ~W1.valueOrError.has
            THEN [W1 EXCEPT !.valueOrError = [VeOff EXCEPT !.st = "done"]] ELSE W1
  IN CheckRootComplete(W2)

\* The first subscriber connects raw: merge subscribes loading$, then
\* valueOrError$; each combineLatest subscribes the source, then cache$.
ConnectRoot(W) ==
  LET W1 == [W EXCEPT !.loading.st = "on", !.valueOrError.st = "on"]
      first == IF W.cfg.input = "absent" THEN 1 ELSE W.source.last
      emits == W.cfg.input = "absent"
               \/ (W.cfg.input = "behavior" /\ W.source.status = "open")
  IN IF W.cfg.input # "absent" /\ W.source.status = "errored" THEN SourceFailure(W1)
     ELSE IF W.cfg.input # "absent" /\ W.source.status = "completed"
     THEN SourceCompletion(W1)
     ELSE IF emits THEN Trigger(W1, first, W.cache)
     ELSE W1

\* --------------------------------------------- subscribing to a node's raw$
RECURSIVE SubscribeTo(_, _, _)

\* share's first subscriber connects the node's raw. A derived node's raw is
\* a merge of two subscriptions to the parent's raw$, made one after the other.
Connect(W, n) ==
  LET W1 == [W EXCEPT !.status[n] = "live", !.hist[n] = <<>>]
  IN IF Kind[n] = "root" THEN ConnectRoot(W1)
     ELSE LET p == Parent[n]
              from == IF W1.status[p] = "idle" THEN 1
                      ELSE IF W1.buf[p] = <<>> THEN Len(W1.hist[p]) + 1
                      ELSE Len(W1.hist[p])
              W2 == SubscribeTo([W1 EXCEPT !.seen[n] = from], p, <<"a", n>>)
          IN IF W2.status[n] = "live" THEN SubscribeTo(W2, p, <<"b", n>>) ELSE W2

\* A subject without share's connection count: every subscriber connects the
\* upstream for itself.
SubscribeToUnshared(W, n, s) ==
  IF W.status[n] = "completed"
  THEN NotifyComplete(IF W.buf[n] # <<>> THEN Deliver(W, s, W.buf[n][1]) ELSE W, s)
  ELSE LET W1 == [W EXCEPT !.subs[n] = Append(@, s)]
           W2 == IF W1.buf[n] # <<>> THEN Deliver(W1, s, W1.buf[n][1]) ELSE W1
       IN Connect(W2, n)

\* share: the subscriber joins the subject (which replays its buffer), then
\* the upstream is connected if it is not yet. A completed subject replays
\* and completes.
SubscribeTo(W, n, s) ==
  IF W.status[n] = "completed"
  THEN NotifyComplete(IF W.buf[n] # <<>> THEN Deliver(W, s, W.buf[n][1]) ELSE W, s)
  ELSE LET W1 == [W EXCEPT !.subs[n] = Append(@, s)]
           W2 == IF W1.buf[n] # <<>> THEN Deliver(W1, s, W1.buf[n][1]) ELSE W1
       IN IF W.status[n] = "idle" THEN Connect(W2, n) ELSE W2

\* ----------------------------------------------- combineStatefulObservables
\* combineStatefulObservables([a, b], mapCombinedValue) over two loader-only
\* engines (source of(true), switchMap, no cache key). Per engine: st is its
\* node's connection, dead says valueOrError$ has completed, job is the event
\* of the loader call in flight (0: none), buf its replay buffer, hist its raw.
Args == {1, 2}
\* The `false` of an error slot.
False == -2
ArgOff == [st |-> "idle", dead |-> FALSE, job |-> 0, buf |-> <<>>, hist |-> <<>>]
\* status, buf, hist: the combined node; latest: combineLatest's last value per
\* input; from: per emitted envelope, the events of the inputs' envelopes it
\* was computed from; reloads: the events that were reload() on the combined node.
\* raw: raw$ of the combined node has its consumer; esubs: the nodes whose
\* error$ has a consumer (0: the combined node, i: input i); meta: the counters
\* of error$ subscriptions (0: the combined node's own, i: input i's lineage);
\* warns: the 'Unhandled error' warnings written so far.
CombOff ==
  [status |-> "idle", buf |-> <<>>, hist |-> <<>>, from |-> <<>>, reloads |-> {},
   args |-> [i \in Args |-> ArgOff], latest |-> [i \in Args |-> <<>>],
   raw |-> FALSE, esubs |-> {}, meta |-> [k \in {0} \cup Args |-> 0], warns |-> <<>>]

\* The counters in the meta list of node k: an input has its lineage's; the
\* combined node has those of its inputs and one of its own.
MetaOf(k) == IF k = 0 THEN Args \cup {0} ELSE {k}

\* A tap that looks at the node's own counter only.
CombSideEffectOwnCounter(C, k, value) ==
  IF isError(value) /\ C.meta[k] = 0
  THEN [C EXCEPT !.warns = Append(@, [node |-> k, index |-> Index[0],
                                      error |-> value.p, ev |-> value.ev])]
  ELSE C

\* The tap in front of a node's defaultCache, for input k or the combined
\* node (k = 0): !meta.some((m) => m.errorSubscriptions).
CombSideEffect(C, k, value) ==
  IF isError(value) /\ \A m \in MetaOf(k) : C.meta[m] = 0
  THEN [C EXCEPT !.warns = Append(@, [node |-> k, index |-> Index[0],
                                      error |-> value.p, ev |-> value.ev])]
  ELSE C

\* The reducer the caller supplies.
mapCombinedValue(data) == data[1] * 100 + data[2]

\* The map with its two tests the other way round: Error wins over Loading.
CombineMapErrorFirst(events, ev) ==
  IF \E i \in Args : isError(events[i])
  THEN Error([i \in Args |-> IF isError(events[i]) THEN events[i].p ELSE False], ev)
  ELSE IF \E i \in Args : isLoading(events[i]) THEN Loading(ev)
       ELSE Value(mapCombinedValue([i \in Args |-> events[i].p]), ev)

\* The map with an error payload that keeps the values of the other inputs.
CombineMapKeepValues(events, ev) ==
  IF \E i \in Args : isLoading(events[i]) THEN Loading(ev)
  ELSE IF \E i \in Args : isError(events[i])
       THEN Error([i \in Args |-> events[i].p], ev)
       ELSE Value(mapCombinedValue([i \in Args |-> events[i].p]), ev)

\* The map over combineLatest's tuple of envelopes.
CombineMap(events, ev) ==
  IF \E i \in Args : isLoading(events[i]) THEN Loading(ev)
  ELSE IF \E i \in Args : isError(events[i])
       THEN Error([i \in Args |-> IF isError(events[i]) THEN events[i].p ELSE False], ev)
       ELSE Value(mapCombinedValue([i \in Args |-> events[i].p]), ev)

\* A combineLatest that emits from the first envelope it takes: Loading as
\* long as an input has not emitted.
CombTakeEager(C, i, env) ==
  LET C1 == [C EXCEPT !.latest[i] = <<env>>]
      all == \A j \in Args : C1.latest[j] # <<>>
      out == IF all THEN CombineMap([j \in Args |-> C1.latest[j][1]], env.ev)
             ELSE Loading(env.ev)
  IN IF C.status # "live" THEN C
     ELSE [CombSideEffect(C1, 0, out) EXCEPT
             !.buf = <<out>>, !.hist = Append(@, out),
             !.from = Append(@, [j \in Args |->
                                   IF C1.latest[j] # <<>> THEN C1.latest[j][1].ev ELSE 0])]

\* combineLatest, if it is subscribed, takes env from input i and, once every
\* input has emitted, the combined raw emits.
CombTake(C, i, env) ==
  LET C1 == [C EXCEPT !.latest[i] = <<env>>]
  IN IF C.status # "live" THEN C
     ELSE IF \A j \in Args : C1.latest[j] # <<>>
     THEN LET events == [j \in Args |-> C1.latest[j][1]]
              out == CombineMap(events, env.ev)
          IN [CombSideEffect(C1, 0, out) EXCEPT
                !.buf = <<out>>, !.hist = Append(@, out),
                !.from = Append(@, [j \in Args |-> events[j].ev])]
     ELSE C1

\* Input i's raw emits env: its tap sees it, its replay subject stores it and
\* hands it to combineLatest.
ArgEmit(C, i, env) ==
  CombTake([CombSideEffect(C, i, env) EXCEPT
              !.args[i].buf = <<env>>, !.args[i].hist = Append(@, env)], i, env)

\* Input i's engine evaluates event ev: loading$ emits, then valueOrError$
\* switches to the new loader call, unless it has completed.
ArgTrigger(C, i, ev, plan) ==
  LET C1 == ArgEmit(C, i, Loading(ev))
      C2 == [C1 EXCEPT !.args[i].job = 0]
  IN IF C.args[i].st # "live" THEN C
     ELSE IF C.args[i].dead THEN C1
     ELSE CASE plan.t = "throw" ->
                 ArgEmit([C2 EXCEPT !.args[i].dead = TRUE], i, Error(Err.thrown, ev))
            [] plan.t = "syncErr" -> ArgEmit(C2, i, Error(Err.loader, ev))
            [] plan.t = "sync" -> ArgEmit(C2, i, Value(plan.v, ev))
            [] OTHER -> [C2 EXCEPT !.args[i].job = ev]

\* reload: () => args.forEach((store) => store.reload()).
CombReloadAll(C, ev, plans) ==
  ArgTrigger(ArgTrigger(C, 1, ev, plans[1]), 2, ev, plans[2])

\* combineLatest subscribes input i's raw$: the input connects, or, connected
\* already, replays its buffer.
CombConnectArg(C, i, ev, plan) ==
  IF C.args[i].st = "idle"
  THEN ArgTrigger([C EXCEPT !.args[i].st = "live", !.args[i].hist = <<>>], i, ev, plan)
  ELSE IF C.args[i].buf # <<>> THEN CombTake(C, i, C.args[i].buf[1]) ELSE C

\* combineLatest subscribes the inputs' raw$ in order.
CombConnect(C, ev, plans) ==
  LET C1 == [C EXCEPT !.status = "live", !.hist = <<>>, !.from = <<>>, !.reloads = {}]
  IN CombConnectArg(CombConnectArg(C1, 1, ev, plans[1]), 2, ev, plans[2])

\* The combined node's last consumer left: it is torn down, and so is every
\* input that has no consumer of its own.
CombTeardown(C) ==
  [CombOff EXCEPT !.meta = C.meta, !.warns = C.warns, !.esubs = C.esubs, !.raw = C.raw,
                  !.args = [i \in Args |-> IF i \in C.esubs THEN C.args[i] ELSE ArgOff]]

\* ------------------------------------------------------------------ actions
LoaderPlans ==
  {[t |-> x, v |-> 0] : x \in {"throw", "syncErr", "async"}}
    \cup {[t |-> "sync", v |-> r] : r \in LoaderResults}
NoPlan == [t |-> "sync", v |-> 0]
Settles == {[ok |-> TRUE, v |-> r] : r \in LoaderResults} \cup {[ok |-> FALSE, v |-> 0]}

Commit(W) ==
  /\ gens' = W.gens
  /\ loading' = W.loading
  /\ valueOrError' = W.valueOrError
  /\ subs' = W.subs
  /\ buf' = W.buf
  /\ status' = W.status
  /\ hist' = W.hist
  /\ calls' = W.calls
  /\ writes' = W.writes
  /\ pvq' = W.pvq
  /\ der' = W.der
  /\ seen' = W.seen
  /\ term' = W.term
  /\ comb' = comb
  /\ meta' = W.meta
  /\ warns' = W.warns
  /\ logs' = W.logs
  /\ sent' = W.sent
  /\ rc' = rc
  /\ fac' = fac

\* A consumer subscribes to node n's raw$.
Subscribe(n, lo, pc) ==
  /\ n \in cfg.nodes
  /\ evCount < MaxEvents
  /\ <<"c", n>> \notin Range(subs[n])
  /\ evCount' = evCount + 1
  /\ Commit(SubscribeTo(World(evCount + 1, lo, pc), n, <<"c", n>>))
  /\ UNCHANGED <<cfg, source, cache, born>>

\* The consumer of node n unsubscribes; the last one leaving resets the node.
Unsubscribe(n) ==
  /\ <<"c", n>> \in Range(subs[n])
  /\ LET W == [World(0, NoPlan, "none") EXCEPT !.subs[n] = Remove(@, {<<"c", n>>})]
     IN Commit(IF W.subs[n] = <<>> THEN Teardown(W, n) ELSE W)
  /\ UNCHANGED <<cfg, source, cache, born, evCount>>

\* A consumer subscribes to node n's error$: the tap's subscribe callback
\* counts it, then cachedRaw$ is subscribed.
SubscribeErr(n, lo, pc) ==
  /\ n \in cfg.nodes
  /\ evCount < MaxEvents
  /\ <<"e", n>> \notin Range(subs[n])
  /\ evCount' = evCount + 1
  /\ LET W == [World(evCount + 1, lo, pc) EXCEPT !.meta = @ + 1]
     IN Commit(SubscribeTo(W, n, <<"e", n>>))
  /\ UNCHANGED <<cfg, source, cache, born>>

\* The consumer of node n's error$ unsubscribes: the tap's unsubscribe
\* callback runs. (It does not run when the stream completes or errors.)
UnsubscribeErr(n) ==
  /\ <<"e", n>> \in Range(subs[n])
  /\ LET W == [World(0, NoPlan, "none") EXCEPT
                 !.subs[n] = Remove(@, {<<"e", n>>}), !.meta = @ - 1]
     IN Commit(IF W.subs[n] = <<>> THEN Teardown(W, n) ELSE W)
  /\ UNCHANGED <<cfg, source, cache, born, evCount>>

\* The input subject emits v.
SrcNext(v, lo, pc) ==
  /\ cfg.input # "absent"
  /\ source.status = "open"
  /\ evCount < MaxEvents
  /\ evCount' = evCount + 1
  /\ source' = IF cfg.input = "behavior" THEN [source EXCEPT !.last = v] ELSE source
  /\ LET W == World(evCount + 1, lo, pc)
     IN Commit(IF status[0] = "live" THEN Trigger(W, v, cache) ELSE W)
  /\ UNCHANGED <<cfg, cache, born>>

\* The input subject fails.
SrcError(pc) ==
  /\ cfg.input # "absent"
  /\ source.status = "open"
  /\ evCount < MaxEvents
  /\ evCount' = evCount + 1
  /\ source' = [source EXCEPT !.status = "errored"]
  /\ LET W == World(evCount + 1, NoPlan, pc)
     IN Commit(IF status[0] = "live" THEN SourceFailure(W) ELSE W)
  /\ UNCHANGED <<cfg, cache, born>>

\* The input subject completes.
SrcComplete ==
  /\ cfg.input # "absent"
  /\ source.status = "open"
  /\ source' = [source EXCEPT !.status = "completed"]
  /\ LET W == World(0, NoPlan, "none")
     IN Commit(IF status[0] = "live" THEN SourceCompletion(W) ELSE W)
  /\ UNCHANGED <<cfg, cache, born, evCount>>

\* A reload() that evaluates the source's last value itself, subscribed or not.
ReloadEager(lo, pc) ==
  /\ evCount < MaxEvents
  /\ evCount' = evCount + 1
  /\ cache' = Len(gens) + 1
  /\ born' = Append(born, evCount + 1)
  /\ LET W == [World(evCount + 1, lo, pc) EXCEPT
                 !.gens = Append(@, createCache(cfg.cacheSize)), !.cache = Len(gens) + 1]
     IN Commit(mapOperator(W, source.last, W.cache))
  /\ UNCHANGED <<cfg, source>>

\* reload(): cache$.next(createCache(cacheSize)).
Reload(lo, pc) ==
  /\ evCount < MaxEvents
  /\ evCount' = evCount + 1
  /\ cache' = Len(gens) + 1
  /\ born' = Append(born, evCount + 1)
  /\ LET W == [World(evCount + 1, lo, pc) EXCEPT
                 !.gens = Append(@, createCache(cfg.cacheSize)), !.cache = Len(gens) + 1]
     IN Commit(IF W.loading.st = "on" /\ W.loading.has
               THEN Trigger(W, W.loading.input, W.cache) ELSE W)
  /\ UNCHANGED <<cfg, source>>

\* An asynchronous loader call delivers its result r: the tap stores it in the
\* generation the call was made for, then it is emitted.
LoaderSettle(i, r, pc) ==
  /\ i \in 1..Len(valueOrError.jobs)
  /\ valueOrError.jobs[i].started
  /\ LET job == valueOrError.jobs[i]
         W == [World(job.ev, NoPlan, pc) EXCEPT
                 !.valueOrError.jobs = SelectSeq(@, LAMBDA j : j # job)]
     IN Commit(IF r.ok THEN InnerNext(W, job, r.v) ELSE InnerError(W, job))
  /\ UNCHANGED <<cfg, source, cache, born, evCount>>

\* An asynchronous operator chain of pipeValue node d delivers its result.
ChainSettle(d, ok) ==
  /\ d \in cfg.nodes
  /\ pvq[d].active # <<>>
  /\ pvq[d].active[1].plan = "async"
  /\ LET item == pvq[d].active[1]
         W == [World(item.v.ev, NoPlan, "async") EXCEPT !.pvq[d].active = <<>>]
     IN Commit(Drain(ChainEmit(W, d, item, ok), d))
  /\ UNCHANGED <<cfg, source, cache, born, evCount>>

\* An operator chain of pipeValue node d that has given its result completes.
ChainComplete(d) ==
  /\ d \in cfg.nodes
  /\ pvq[d].active # <<>>
  /\ pvq[d].active[1].plan = "emitted"
  /\ LET W == [World(pvq[d].active[1].v.ev, NoPlan, "open") EXCEPT !.pvq[d].active = <<>>]
     IN Commit(Drain(W, d))
  /\ UNCHANGED <<cfg, source, cache, born, evCount>>

\* The variables of the lineage, which the combined node's engines do not touch.
lineageVars == <<cfg, source, cache, gens, loading, valueOrError, subs, buf,
                 status, hist, calls, writes, pvq, der, seen, term, meta, warns, logs, sent,
                 born>>

\* A consumer subscribes to the combined node's raw$.
CombSubscribe(lo1, lo2) ==
  /\ ~comb.raw
  /\ evCount < MaxEvents
  /\ evCount' = evCount + 1
  /\ LET C == [comb EXCEPT !.raw = TRUE]
     IN comb' = IF comb.status = "idle" THEN CombConnect(C, evCount + 1, <<lo1, lo2>>) ELSE C
  /\ UNCHANGED <<lineageVars, rc, fac>>

\* The consumer leaves: with no other consumer, the combined node and the
\* inputs it alone kept connected are torn down.
CombUnsubscribe ==
  /\ comb.raw
  /\ LET C == [comb EXCEPT !.raw = FALSE]
     IN comb' = IF 0 \in comb.esubs THEN C ELSE CombTeardown(C)
  /\ UNCHANGED <<lineageVars, evCount, rc, fac>>

\* A consumer subscribes to the combined node's error$: the tap's subscribe
\* callback counts it in every counter of the node's meta list, then
\* cachedRaw$ is subscribed.
CombSubscribeErr(lo1, lo2) ==
  /\ 0 \notin comb.esubs
  /\ evCount < MaxEvents
  /\ evCount' = evCount + 1
  /\ LET C == [comb EXCEPT !.esubs = @ \cup {0},
                           !.meta = [k \in DOMAIN @ |-> IF k \in MetaOf(0) THEN @[k] + 1 ELSE @[k]]]
     IN comb' = IF comb.status = "idle" THEN CombConnect(C, evCount + 1, <<lo1, lo2>>) ELSE C
  /\ UNCHANGED <<lineageVars, rc, fac>>

\* The consumer of the combined node's error$ unsubscribes.
CombUnsubscribeErr ==
  /\ 0 \in comb.esubs
  /\ LET C == [comb EXCEPT !.esubs = @ \ {0},
                           !.meta = [k \in DOMAIN @ |-> IF k \in MetaOf(0) THEN @[k] - 1 ELSE @[k]]]
     IN comb' = IF comb.raw THEN C ELSE CombTeardown(C)
  /\ UNCHANGED <<lineageVars, evCount, rc, fac>>

\* A consumer subscribes to input i's error$; the input connects if nothing
\* has connected it yet.
ArgSubscribeErr(i, lo) ==
  /\ i \notin comb.esubs
  /\ evCount < MaxEvents
  /\ evCount' = evCount + 1
  /\ LET C == [comb EXCEPT !.esubs = @ \cup {i}, !.meta[i] = @ + 1]
     IN comb' = IF comb.args[i].st = "idle"
                THEN ArgTrigger([C EXCEPT !.args[i].st = "live", !.args[i].hist = <<>>],
                                i, evCount + 1, lo)
                ELSE C
  /\ UNCHANGED <<lineageVars, rc, fac>>

\* The consumer of input i's error$ unsubscribes; an input the combined node
\* is not subscribed to is torn down.
ArgUnsubscribeErr(i) ==
  /\ i \in comb.esubs
  /\ LET C == [comb EXCEPT !.esubs = @ \ {i}, !.meta[i] = @ - 1]
     IN comb' = IF comb.status = "live" THEN C ELSE [C EXCEPT !.args[i] = ArgOff]
  /\ UNCHANGED <<lineageVars, evCount, rc, fac>>

\* reload() on the combined node.
CombReload(lo1, lo2) ==
  /\ evCount < MaxEvents
  /\ evCount' = evCount + 1
  /\ comb' = CombReloadAll(IF comb.status = "live"
                           THEN [comb EXCEPT !.reloads = @ \cup {evCount + 1}] ELSE comb,
                           evCount + 1, <<lo1, lo2>>)
  /\ UNCHANGED <<lineageVars, rc, fac>>

\* reload() on input i alone.
ArgReload(i, lo) ==
  /\ evCount < MaxEvents
  /\ evCount' = evCount + 1
  /\ comb' = ArgTrigger(comb, i, evCount + 1, lo)
  /\ UNCHANGED <<lineageVars, rc, fac>>

\* The loader call in flight on input i delivers its result r.
ArgSettle(i, r) ==
  /\ comb.args[i].job # 0
  /\ LET ev == comb.args[i].job
         C == [comb EXCEPT !.args[i].job = 0]
     IN comb' = ArgEmit(C, i, IF r.ok THEN Value(r.v, ev) ELSE Error(Err.loader, ev))
  /\ UNCHANGED <<lineageVars, evCount, rc, fac>>

\* ------------------------------------------------------- the cache on its own
\* rc = [made, size, c, used, op, prev]: size is the size passed to
\* createCache, written in halves; c is the cache it returned; used lists the keys by their last use (a set, or a get that hit),
\* oldest first; op is the last call with what it returned and did, prev the
\* call before it.
CacheKeys == {"a", "b", "c"}
CacheValues == {1, 2}
CacheSizes == -3..5
Keys(c) == {c.map[i][1] : i \in 1..Len(c.map)}
NoOp == [t |-> "new", key |-> NoKey, value |-> 0, ret |-> Null, had |-> FALSE,
         moved |-> FALSE, evicted |-> {}]

RcCreate(size) ==
  /\ ~rc.made
  /\ rc' = [made |-> TRUE, size |-> size, c |-> createCache(Floor(size)), used |-> <<>>,
            op |-> NoOp, prev |-> NoOp]
  /\ UNCHANGED <<lineageVars, evCount, comb, fac>>

RcSet(key, value) ==
  /\ rc.made
  /\ LET c2 == CacheSet(rc.c, key, value)
     IN rc' = [rc EXCEPT !.c = c2,
                         !.used = Append(Remove(@, {key}), key),
                         !.prev = rc.op,
                         !.op = [t |-> "set", key |-> key, value |-> value, ret |-> Null,
                                 had |-> key \in Keys(rc.c), moved |-> c2.map # rc.c.map,
                                 evicted |-> Keys(rc.c) \ Keys(c2)]]
  /\ UNCHANGED <<lineageVars, evCount, comb, fac>>

RcGet(key) ==
  /\ rc.made
  /\ LET c2 == CacheGetAfter(rc.c, key)
     IN rc' = [rc EXCEPT !.c = c2,
                         !.used = IF key \in Keys(rc.c) THEN Append(Remove(@, {key}), key) ELSE @,
                         !.prev = rc.op,
                         !.op = [t |-> "get", key |-> key, value |-> 0,
                                 ret |-> CacheGetValue(rc.c, key),
                                 had |-> key \in Keys(rc.c), moved |-> c2.map # rc.c.map,
                                 evicted |-> Keys(rc.c) \ Keys(c2)]]
  /\ UNCHANGED <<lineageVars, evCount, comb, fac>>

RcReset ==
  /\ rc.made
  /\ LET c2 == CacheReset(rc.c)
     IN rc' = [rc EXCEPT !.c = c2,
                         !.used = <<>>,
                         !.prev = rc.op,
                         !.op = [t |-> "reset", key |-> NoKey, value |-> 0, ret |-> Null,
                                 had |-> FALSE, moved |-> c2.map # rc.c.map,
                                 evicted |-> Keys(rc.c) \ Keys(c2)]]
  /\ UNCHANGED <<lineageVars, evCount, comb, fac>>

\* ---------------------------------------------------------- specifications
\* The options an engine is built with.
Config(m, k, z, l, i, ns) ==
  [mapOperator |-> m, cacheKey |-> k, cacheSize |-> z, loader |-> l, input |-> i, nodes |-> ns,
   log |-> FALSE]

\* Every overlap policy with a key per input, at capacity 1 and 2; the default
\* policy with the other key functions, sources and the identity loader.
EngineConfigs ==
  {Config(m, "id", z, TRUE, "behavior", {0}) :
     m \in {"switchMap", "mergeMap", "concatMap"}, z \in {1, 2}}
  \cup {Config("switchMap", k, 1, TRUE, "behavior", {0}) : k \in {"none", "partial"}}
  \cup {Config("switchMap", "none", 2, l, i, {0}) : l \in BOOLEAN, i \in {"absent", "subject"}}
  \cup {Config("switchMap", "id", 2, FALSE, "behavior", {0})}

PipeConfigs == {Config("switchMap", "none", 2, TRUE, "behavior", {0, d}) : d \in {1, 2}}

InitWith(configs) ==
  /\ cfg \in configs
  /\ source = [last |-> 1, status |-> "open"]
  /\ cache = 1
  /\ evCount = 0
  /\ gens = <<createCache(cfg.cacheSize)>>
  /\ loading = LdOff
  /\ valueOrError = VeOff
  /\ subs = [n \in Nodes |-> <<>>]
  /\ buf = [n \in Nodes |-> <<>>]
  /\ status = [n \in Nodes |-> "idle"]
  /\ hist = [n \in Nodes |-> <<>>]
  /\ calls = <<>>
  /\ writes = <<>>
  /\ pvq = [n \in Nodes |-> PvOff]
  /\ der = [n \in Nodes |-> DerOff]
  /\ seen = [n \in Nodes |-> 1]
  /\ term = [n \in Nodes |-> FALSE]
  /\ comb = CombOff
  /\ meta = 0
  /\ warns = <<>>
  /\ logs = <<>>
  /\ sent = [n \in Nodes |-> 0]
  /\ rc = RcOff
  /\ fac = FacOff
  /\ born = <<0>>

\* What the loader may do when it is invoked, and what a derived node's
\* operators may do with what they receive.
Plans == IF cfg.loader THEN LoaderPlans ELSE {NoPlan}
ChainPlans ==
  IF 3 \in cfg.nodes THEN {"sync", "syncErr", "throw"}
  ELSE IF 1 \in cfg.nodes THEN {"sync", "syncErr", "async"}
  ELSE IF 2 \in cfg.nodes THEN {"map", "throw"}
  ELSE {"none"}

\* The engine on its own.
Init == InitWith(EngineConfigs)

Next ==
  \/ \E lo \in Plans : Subscribe(0, lo, "none")
  \/ Unsubscribe(0)
  \/ \E v \in Inputs, lo \in Plans : SrcNext(v, lo, "none")
  \/ SrcError("none")
  \/ SrcComplete
  \/ \E lo \in Plans : Reload(lo, "none")
  \/ \E i \in 1..MaxEvents, r \in Settles : LoaderSettle(i, r, "none")

Spec == Init /\ [][Next]_vars

\* The engine on its own with a log function, under every overlap policy.
LogConfigs ==
  {[Config(m, "id", 2, TRUE, i, {0}) EXCEPT !.log = TRUE] :
     m \in {"switchMap", "mergeMap", "concatMap"}, i \in {"behavior", "subject"}}
InitLog == InitWith(LogConfigs)
SpecLog == InitLog /\ [][Next]_vars

\* The engine's node with one derived node.
InitPipe == InitWith(PipeConfigs)

NextPipe ==
  \/ \E n \in Nodes, lo \in Plans, pc \in ChainPlans : Subscribe(n, lo, pc)
  \/ \E n \in Nodes : Unsubscribe(n)
  \/ \E v \in Inputs, lo \in Plans, pc \in ChainPlans : SrcNext(v, lo, pc)
  \/ \E pc \in ChainPlans : SrcError(pc)
  \/ \E lo \in Plans, pc \in ChainPlans : Reload(lo, pc)
  \/ \E i \in 1..MaxEvents, r \in Settles, pc \in ChainPlans : LoaderSettle(i, r, pc)
  \/ \E d \in Nodes, ok \in BOOLEAN : ChainSettle(d, ok)

SpecPipe == InitPipe /\ [][NextPipe]_vars

\* A combined node over two engines.
InitCombine == InitWith({Config("switchMap", "none", 2, TRUE, "absent", {})})

NextCombine ==
  \/ \E lo1, lo2 \in Plans : CombSubscribe(lo1, lo2)
  \/ CombUnsubscribe
  \/ \E lo1, lo2 \in Plans : CombReload(lo1, lo2)
  \/ \E i \in Args, lo \in Plans : ArgReload(i, lo)
  \/ \E i \in Args, r \in Settles : ArgSettle(i, r)

SpecCombine == InitCombine /\ [][NextCombine]_vars

\* The combined node and its inputs with consumers of their error$ as well.
NextCombineDiag ==
  \/ NextCombine
  \/ \E lo1, lo2 \in Plans : CombSubscribeErr(lo1, lo2)
  \/ CombUnsubscribeErr
  \/ \E i \in Args, lo \in Plans : ArgSubscribeErr(i, lo)
  \/ \E i \in Args : ArgUnsubscribeErr(i)

SpecCombineDiag == InitCombine /\ [][NextCombineDiag]_vars

\* The engine's node with a pipeValue node whose operators end in an
\* observable that gives its result at once and completes later or never. A
\* loader call in flight delivers in the end; nothing says a chain completes.
OpenPlans == {"sync", "open"}
\* The loader answers at once or later.
LivePlans == {lo \in LoaderPlans : lo.t = "async" \/ (lo.t = "sync" /\ Truthy(lo.v))}
InitLive == InitWith({Config("switchMap", "none", 2, TRUE, "behavior", {0, 1})})

NextLive ==
  \/ \E n \in {0, 1}, lo \in LivePlans, pc \in OpenPlans : Subscribe(n, lo, pc)
  \/ \E n \in {0, 1} : Unsubscribe(n)
  \/ \E v \in Inputs, lo \in LivePlans, pc \in OpenPlans : SrcNext(v, lo, pc)
  \/ \E lo \in LivePlans, pc \in OpenPlans : Reload(lo, pc)
  \/ \E i \in 1..MaxEvents, r \in Settles, pc \in OpenPlans : LoaderSettle(i, r, pc)
  \/ ChainComplete(1)

LoaderDelivers == \E i \in 1..MaxEvents, r \in Settles, pc \in OpenPlans : LoaderSettle(i, r, pc)

SpecLive == InitLive /\ [][NextLive]_vars /\ WF_vars(LoaderDelivers)

\* The engine's node alone, and the chain root.pipeError(...).pipeValue(...),
\* with consumers of raw$ and of error$.
DiagConfigs == {Config("switchMap", "none", 2, TRUE, "behavior", ns) : ns \in {{0}, {0, 2, 3}}}
InitDiag == InitWith(DiagConfigs)

NextDiag ==
  \/ \E n \in Nodes, lo \in Plans, pc \in ChainPlans : Subscribe(n, lo, pc)
  \/ \E n \in Nodes : Unsubscribe(n)
  \/ \E n \in Nodes, lo \in Plans, pc \in ChainPlans : SubscribeErr(n, lo, pc)
  \/ \E n \in Nodes : UnsubscribeErr(n)
  \/ \E v \in Inputs, lo \in Plans, pc \in ChainPlans : SrcNext(v, lo, pc)
  \/ \E pc \in ChainPlans : SrcError(pc)
  \/ \E lo \in Plans, pc \in ChainPlans : Reload(lo, pc)
  \/ \E i \in 1..MaxEvents, r \in Settles, pc \in ChainPlans : LoaderSettle(i, r, pc)

SpecDiag == InitDiag /\ [][NextDiag]_vars

\* ------------------------------------------ the subscription facade on its own
\* fac: raw is what a cachedRaw$ has emitted and done whether it completed;
\* fn and ob are the calls received by a next-function and by an observer
\* {pending, next, error, complete} given to subscribe (at: the envelope's
\* place in raw); value, error, pending are what value$, error$ and pending$
\* emitted.
MaxRaw == 4
FacEnvelopes ==
  {Loading(0), Error(Err.loader, 0)} \cup {Value(r, 0) : r \in LoaderResults}

\* An observer that tells pending(false) before it hands over the result.
subscribeObserverPendingFirst(rawValue, at) ==
  (IF isLoading(rawValue) THEN <<[cb |-> "pending", arg |-> TRUE, at |-> at]>> ELSE <<>>)
  \o (IF isSuccess(rawValue)
      THEN <<[cb |-> "pending", arg |-> FALSE, at |-> at],
             [cb |-> "next", arg |-> rawValue.p, at |-> at]>> ELSE <<>>)
  \o (IF isError(rawValue)
      THEN <<[cb |-> "pending", arg |-> FALSE, at |-> at],
             [cb |-> "error", arg |-> rawValue.p, at |-> at]>> ELSE <<>>)

\* subscribe(observer): the calls the next handler makes for one envelope.
subscribeObserver(rawValue, at) ==
  (IF isLoading(rawValue) THEN <<[cb |-> "pending", arg |-> TRUE, at |-> at]>> ELSE <<>>)
  \o (IF isSuccess(rawValue)
      THEN <<[cb |-> "next", arg |-> rawValue.p, at |-> at],
             [cb |-> "pending", arg |-> FALSE, at |-> at]>> ELSE <<>>)
  \o (IF isError(rawValue)
      THEN <<[cb |-> "error", arg |-> rawValue.p, at |-> at],
             [cb |-> "pending", arg |-> FALSE, at |-> at]>> ELSE <<>>)

\* subscribe(fn): the calls the next handler makes for one envelope.
subscribeNext(rawValue, at) ==
  IF isSuccess(rawValue) THEN <<[cb |-> "next", arg |-> rawValue.p, at |-> at]>> ELSE <<>>

\* An error$ that passes the Loading envelopes on as false.
errorStreamWithLoading(e) == <<IF isError(e) THEN e.p ELSE False>>

\* value$ = cachedRaw$.pipe(filter(isSuccess)).
valueStream(e) == IF isSuccess(e) THEN <<e.p>> ELSE <<>>
\* error$ = cachedRaw$.pipe(filter(!isLoading), map(isError ? e.error : false)).
errorStream(e) == IF ~isLoading(e) THEN <<IF isError(e) THEN e.p ELSE False>> ELSE <<>>
\* pending$ = cachedRaw$.pipe(map(isLoading)).
pendingStream(e) == <<isLoading(e)>>

\* cachedRaw$ emits e to its consumers.
FacEmit(e) ==
  /\ ~fac.done
  /\ Len(fac.raw) < MaxRaw
  /\ LET at == Len(fac.raw) + 1
     IN fac' = [fac EXCEPT !.raw = Append(@, e),
                           !.fn = @ \o subscribeNext(e, at),
                           !.ob = @ \o subscribeObserver(e, at),
                           !.value = @ \o valueStream(e),
                           !.error = @ \o errorStream(e),
                           !.pending = @ \o pendingStream(e)]
  /\ UNCHANGED <<lineageVars, evCount, comb, rc>>

\* cachedRaw$ completes: the observer's complete is called.
FacComplete ==
  /\ ~fac.done
  /\ fac' = [fac EXCEPT !.done = TRUE,
                        !.ob = Append(@, [cb |-> "complete", arg |-> FALSE, at |-> Len(fac.raw)])]
  /\ UNCHANGED <<lineageVars, evCount, comb, rc>>

InitFacade == InitWith({Config("switchMap", "none", 2, TRUE, "absent", {})})
NextFacade == (\E e \in FacEnvelopes : FacEmit(e)) \/ FacComplete
SpecFacade == InitFacade /\ [][NextFacade]_vars

\* The rolling cache under every sequence of set, get and reset calls.
InitCache == InitWith({Config("switchMap", "none", 2, TRUE, "absent", {})})

NextCache ==
  \/ \E size \in CacheSizes : RcCreate(size)
  \/ \E key \in CacheKeys, value \in CacheValues : RcSet(key, value)
  \/ \E key \in CacheKeys : RcGet(key)
  \/ RcReset

SpecCache == InitCache /\ [][NextCache]_vars

\* ------------------------------------------------------------------- claims
Settled(n) == {i \in 1..Len(hist[n]) : ~isLoading(hist[n][i])}
Kinds(h) == [i \in 1..Len(h) |-> h[i].k]
Last(h) == h[Len(h)]

\* C1: on the root's raw, the settled envelope (Value or Error) of a causal
\* event (a subscription's first evaluation, a source value, a reload) comes
\* strictly after the Loading envelope of that same event, also when the
\* result is a synchronous cache hit; and the Loading envelopes appear in the
\* order of their events.
C1_LoadingBeforeSettled ==
  /\ \A i \in Settled(0) :
       hist[0][i].ev > 0 => \E j \in 1..(i - 1) : hist[0][j] = Loading(hist[0][i].ev)
  /\ \A i, j \in 1..Len(hist[0]) :
       (i < j /\ isLoading(hist[0][i]) /\ isLoading(hist[0][j])) => hist[0][i].ev < hist[0][j].ev

\* A synchronous cache hit: a Value for an event the loader was not invoked
\* for, directly after that event's Loading.
C1_Witness ==
  /\ cfg.loader
  /\ \E i \in 2..Len(hist[0]) :
       /\ isSuccess(hist[0][i])
       /\ \A c \in Range(calls) : c.ev # hist[0][i].ev
       /\ hist[0][i - 1] = Loading(hist[0][i].ev)

\* C2: a failed loader result becomes an Error envelope and raw goes on: both
\* branches stay subscribed, no terminating notification reaches consumers,
\* and the next source value or reload emits Loading as the next envelope and
\* is evaluated (its settled envelope follows, or its evaluation is pending).
LoaderErrorLast ==
  status[0] = "live" /\ hist[0] # <<>> /\ isError(Last(hist[0])) /\ Last(hist[0]).p = Err.loader

C2_RecoversAfterLoaderError ==
  /\ [](LoaderErrorLast => loading.st = "on" /\ valueOrError.st = "on" /\ ~term[0])
  /\ [][(LoaderErrorLast /\ evCount' = evCount + 1 /\ source'.status # "errored") =>
         /\ status'[0] = "live"
         /\ Len(hist'[0]) > Len(hist[0])
         /\ SubSeq(hist'[0], 1, Len(hist[0]) + 1) = Append(hist[0], Loading(evCount'))
         /\ \/ \E i \in (Len(hist[0]) + 2)..Len(hist'[0]) :
                 ~isLoading(hist'[0][i]) /\ hist'[0][i].ev = evCount'
            \/ \E j \in Range(valueOrError'.jobs) : j.ev = evCount']_vars

\* [Loading, Error, Loading, Value]: an asynchronous failure, then a retry.
C2_Witness ==
  /\ status[0] = "live"
  /\ Kinds(hist[0]) = <<"L", "E", "L", "V">>
  /\ hist[0][2].p = Err.loader
  /\ hist[0][4].ev > hist[0][2].ev

\* C3: a loader that throws synchronously yields [Loading, Error(payload)],
\* raw does not terminate, and the engine stays usable: every later event's
\* Loading is followed by that event's settled envelope, unless its evaluation
\* is still pending or a newer event has started.
ThrownBefore(i) ==
  \E j \in 1..(i - 1) : isError(hist[0][j]) /\ hist[0][j].p = Err.thrown

C3_UsableAfterThrow ==
  /\ ~term[0]
  /\ status[0] = "live" =>
       \A i \in 1..Len(hist[0]) :
         (isLoading(hist[0][i]) /\ ThrownBefore(i)) =>
           \/ \E k \in (i + 1)..Len(hist[0]) :
                isLoading(hist[0][k]) \/ hist[0][k].ev = hist[0][i].ev
           \/ \E j \in Range(valueOrError.jobs) : j.ev = hist[0][i].ev

\* C4: with a non-empty key and an unchanged generation, an input whose key
\* the generation holds (loaded successfully, not evicted) is served from the
\* cache: the loader is never invoked for a key its generation holds.
C4_CachedKeyNotReloaded == \A c \in Range(calls) : ~c.held

\* C5: every generation reload() swaps in has the capacity of the first one
\* and starts empty, so a key misses once after the reload; from then on the
\* new generation serves it: in a generation created by reload() the loader
\* is never invoked for a key that generation holds.
C5_ReloadMissesOnce ==
  /\ \A g \in 1..Len(gens) :
       gens[g].capacity = gens[1].capacity /\ Len(gens[g].map) <= gens[g].capacity
  /\ \A w \in Range(writes) : w.gen <= Len(gens)
  /\ \A c \in Range(calls) : c.gen > 1 => ~c.held

\* C6: under switchMap a new event cancels the evaluation in flight: nothing
\* settled is emitted for an event after a newer event's Loading, and the tap
\* only stores the result of the newest event.
C6_SwitchMapCancels ==
  cfg.mapOperator = "switchMap" =>
    /\ \A i \in Settled(0) : \A j \in 1..(i - 1) :
         hist[0][i].ev > 0 => hist[0][j].ev <= hist[0][i].ev
    /\ \A w \in Range(writes) : w.ev = w.newest

\* The loader was invoked for an event that never settled, and a newer event
\* settled after it.
C6_Witness ==
  /\ cfg.mapOperator = "switchMap"
  /\ status[0] = "live"
  /\ \E i \in 1..Len(hist[0]) :
       /\ isLoading(hist[0][i])
       /\ \E c \in Range(calls) : c.ev = hist[0][i].ev
       /\ \A k \in Settled(0) : hist[0][k].ev # hist[0][i].ev
       /\ \E k \in Settled(0) : k > i /\ hist[0][k].ev > hist[0][i].ev /\ isSuccess(hist[0][k])

\* What a live derived node has observed of its parent's raw: the replayed
\* envelope it connected at and everything the parent emitted since.
Observed(d) == SubSeq(hist[Parent[d]], seen[d], Len(hist[Parent[d]]))
Quiet(d) == pvq[d].active = <<>> /\ pvq[d].queue = <<>>
ChainResults(h) == SelectSeq(h, LAMBDA r : isSuccess(r) \/ (isError(r) /\ r.p = Err.chain))

\* C7: the raw of a pipeValue node is its parent's raw with every Value
\* replaced by what the operator chain made of it and every Loading and Error
\* unchanged, in the parent's order, for synchronous and asynchronous chains
\* (compared whenever no chain is at work).
C7_PipeValueKeepsOrder ==
  (status[1] = "live" /\ Quiet(1)) =>
    /\ Len(hist[1]) = Len(Observed(1))
    /\ \A i \in 1..Len(hist[1]) :
         LET r == Observed(1)[i]
         IN IF isSuccess(r)
            THEN hist[1][i] \in {Value(ChainMap(r.p), r.ev), Error(Err.chain, r.ev)}
            ELSE hist[1][i] = r

\* C8: an error inside the operator chain, synchronous or asynchronous, is an
\* Error envelope of the derived node and never a terminating notification;
\* every Value the node observed has its chain result emitted, or is at work
\* or buffered in concatMap, also after an earlier Value's chain failed.
C8_ChainErrorIsEnvelope ==
  /\ ~term[1]
  /\ status[1] = "live" =>
       Len(SelectSeq(Observed(1), isSuccess))
         = Len(ChainResults(hist[1])) + Len(pvq[1].active) + Len(pvq[1].queue)

\* A chain failure, and a later event's Value transformed after it.
C8_Witness ==
  /\ status[1] = "live"
  /\ \E i, k \in 1..Len(hist[1]) :
       /\ i < k
       /\ hist[1][i] = Error(Err.chain, hist[1][i].ev)
       /\ isSuccess(hist[1][k])
       /\ hist[1][k].ev > hist[1][i].ev

\* C9: the raw of a pipeError node is its parent's raw with every Error's
\* payload mapped and every Loading and Value untouched, in the same order
\* and with none dropped.
MapErrors(h) == [i \in 1..Len(h) |-> IF isError(h[i]) THEN Error(ErrorMap(h[i].p), h[i].ev) ELSE h[i]]

C9_PipeErrorKeepsAll == status[2] = "live" => hist[2] = MapErrors(Observed(2))

\* C10: an operator of pipeError that throws yields an Error envelope, never
\* a terminating error notification to the node's consumers.
C10_PipeErrorThrowIsEnvelope == ~term[2]

\* C11: on every derived node of the lineage, too, the settled envelope of an
\* event comes strictly after the Loading envelope of that event on the
\* node's own raw, for every event whose Loading the parent emitted while the
\* node was connected (the first evaluation at subscription included).
C11_DerivedLoadingFirst ==
  \A d \in {1, 2} :
    status[d] = "live" =>
      \A i \in Settled(d) :
        (hist[d][i].ev > 0 /\ Loading(hist[d][i].ev) \in Range(Observed(d))) =>
          \E j \in 1..(i - 1) : hist[d][j] = Loading(hist[d][i].ev)

\* C12: a failure of the source is an Error envelope on raw, never a
\* terminating notification, and the node stays usable: raw does not end, and
\* a reload() after the failure emits Loading and is evaluated.
SourceFailed == \E i \in 1..Len(hist[0]) : isError(hist[0][i]) /\ hist[0][i].p = Err.source

C12_UsableAfterSourceFailure ==
  /\ ~term[0]
  /\ SourceFailed => status[0] # "completed"
  /\ (SourceFailed /\ status[0] = "live") => loading.st = "on" /\ valueOrError.st = "on"

\* The latest envelope of input i of the combined node: what its raw$ replays.
ArgLatest(i) == comb.args[i].buf[1]
ArgsEmitted == \A i \in Args : comb.args[i].buf # <<>>

\* C13: the combined node's envelope is a function of the inputs' latest
\* envelopes: Loading exactly when some input is Loading (also when another
\* is in Error), a Value exactly when every input is a Value, then the
\* reducer's result on the inputs' values; and every emission of an input
\* makes the combined node emit once.
C13_CombinedFollowsInputs ==
  /\ [](comb.status = "live" =>
         IF ~ArgsEmitted THEN comb.hist = <<>>
         ELSE /\ comb.hist # <<>>
              /\ isLoading(Last(comb.hist)) <=> \E i \in Args : isLoading(ArgLatest(i))
              /\ isSuccess(Last(comb.hist)) <=> \A i \in Args : isSuccess(ArgLatest(i))
              /\ isSuccess(Last(comb.hist)) =>
                   Last(comb.hist).p = ArgLatest(1).p * 100 + ArgLatest(2).p)
  /\ [][(comb.status = "live" /\ comb'.status = "live") =>
          Len(comb'.hist) - Len(comb.hist)
            = (Len(comb'.args[1].hist) - Len(comb.args[1].hist))
              + (Len(comb'.args[2].hist) - Len(comb.args[2].hist))]_vars

\* The combined node was in Error and, after an input settled again, emitted
\* a recomputed Value; and it was Loading while an input was in Error.
C13_Witness ==
  /\ comb.status = "live"
  /\ isSuccess(Last(comb.hist))
  /\ \E k \in 1..Len(comb.hist) : isError(comb.hist[k])
  /\ \E k \in 2..Len(comb.hist) : isLoading(comb.hist[k]) /\ isError(comb.hist[k - 1])

\* C14: with no input Loading and some input in Error, the combined envelope
\* is an Error whose payload has one slot per input, in input order: the
\* input's error payload if it is in Error, false otherwise.
C14_ErrorSlots ==
  (comb.status = "live" /\ ArgsEmitted
     /\ (\A i \in Args : ~isLoading(ArgLatest(i)))
     /\ (\E i \in Args : isError(ArgLatest(i)))) =>
    /\ isError(Last(comb.hist))
    /\ DOMAIN Last(comb.hist).p = Args
    /\ \A i \in Args :
         Last(comb.hist).p[i] = IF isError(ArgLatest(i)) THEN ArgLatest(i).p ELSE False

\* One input in Error and the other a Value: one payload slot, one false slot.
C14_Witness ==
  /\ comb.status = "live"
  /\ comb.hist # <<>>
  /\ isError(Last(comb.hist))
  /\ \E i, j \in Args :
       /\ Last(comb.hist).p[i] = False
       /\ isSuccess(ArgLatest(i))
       /\ Last(comb.hist).p[j] = Err.loader

\* C15: after reload() on the combined node, the combined node is Loading
\* until every input has settled again: each settled envelope it emits from
\* the reload on is computed only from envelopes the inputs produced for
\* that reload or later.
C15_LoadingUntilAllReloaded ==
  comb.status = "live" =>
    \A e \in comb.reloads :
      \A k \in 1..Len(comb.hist) :
        (comb.hist[k].ev >= e /\ ~isLoading(comb.hist[k])) =>
          \A i \in Args : comb.from[k][i] >= e

\* C16: the consumers of one node share one upstream evaluation. The loader
\* is invoked at most once per causal event however many subscribers the
\* node has; a subscriber joining an active node starts no evaluation and
\* makes the node emit nothing; and a derived node that subscribes to its
\* active parent receives the parent's latest envelope only, never an older
\* one.
C16_ConsumersShareEvaluation ==
  /\ [](\A i, j \in 1..Len(calls) : i # j => calls[i].ev # calls[j].ev)
  /\ [][\A n \in Nodes :
          (status[n] = "live" /\ status'[n] = "live" /\ Len(subs'[n]) > Len(subs[n])) =>
            calls' = calls /\ hist'[n] = hist[n] /\ buf'[n] = buf[n]]_vars
  /\ [][\A d \in {1, 2} :
          (status[d] = "idle" /\ status'[d] = "live"
             /\ status[Parent[d]] = "live" /\ buf[Parent[d]] # <<>>) =>
            /\ Len(hist'[d]) <= 1
            /\ \A k \in 1..Len(hist'[d]) : hist'[d][k].ev = buf[Parent[d]][1].ev
            /\ isLoading(buf[Parent[d]][1]) => hist'[d] = buf[Parent[d]]]_vars

\* The root has its own consumer and both branches of a derived node; the
\* loader was invoked, and the derived node joined after the root had emitted.
C16_Witness ==
  /\ status[0] = "live"
  /\ Len(subs[0]) = 3
  /\ calls # <<>>
  /\ \E d \in {1, 2} : status[d] = "live" /\ seen[d] >= 2 /\ hist[d] # <<>>

\* The source delivers a value to a new subscription of the engine.
EmitsOnSubscribe ==
  cfg.input = "absent" \/ (cfg.input = "behavior" /\ source.status = "open")

NoConsumer == \A n \in Nodes : status[n] = "idle"

\* The step is a consumer's subscription to some node.
Subscribes == \E n \in Nodes, lo \in Plans, pc \in ChainPlans : Subscribe(n, lo, pc)

\* C18: the lineage is lazy. After construction and derivation nothing has
\* been evaluated; while no node has a consumer the source is not subscribed,
\* and no step but a subscription, a reload() or a source value included,
\* invokes the loader, writes the cache or emits an envelope.
C18_LazyUntilSubscribed ==
  /\ (NoConsumer /\ calls = <<>> /\ writes = <<>>)
  /\ [](NoConsumer => loading = LdOff /\ valueOrError = VeOff
                        /\ \A n \in Nodes : subs[n] = <<>> /\ pvq[n] = PvOff)
  /\ [][(NoConsumer /\ ~Subscribes) =>
          NoConsumer' /\ calls' = calls /\ writes' = writes /\ hist' = hist]_vars

\* reload() was called twice on a lineage that never had a consumer, and the
\* loader has not been invoked.
C18_Witness ==
  /\ NoConsumer
  /\ cfg.nodes # {0}
  /\ Len(gens) = 3
  /\ calls = <<>>

\* What node n emitted in this step.
Emitted(n) == SubSeq(hist'[n], Len(hist[n]) + 1, Len(hist'[n]))

\* An evaluation for event e is under way at node n: a loader call in flight
\* or, at a pipeValue node, a Value in the operator chain or waiting for it.
Pending(n, e) ==
  \/ \E j \in Range(valueOrError'.jobs) : j.ev = e
  \/ \E x \in Range(pvq'[n].active) \cup Range(pvq'[n].queue) : x.v.ev = e

\* C19: reload() is one callback for the whole lineage: a reload() while the
\* root is evaluating an input makes every subscribed node of the lineage
\* emit the reload's Loading next, and the reload is evaluated: the node
\* emits the reload's settled envelope, or the evaluation is under way.
C19_ReloadReachesLineage ==
  [][(cache' # cache /\ status[0] = "live" /\ loading.has) =>
       \A n \in cfg.nodes :
         (status[n] = "live" /\ status'[n] = "live") =>
           /\ Emitted(n) # <<>>
           /\ Emitted(n)[1] = Loading(evCount')
           /\ \/ \E k \in 2..Len(Emitted(n)) :
                   ~isLoading(Emitted(n)[k]) /\ Emitted(n)[k].ev = evCount'
              \/ Pending(n, evCount')]_vars

\* C20: on a subscribed engine with a loader and no cache key, each reload()
\* invokes the loader exactly once more, for the current input, and appends
\* Loading and then, once the call has settled, one settled envelope.
C20_ReloadInvokesLoaderOnce ==
  [][(cache' # cache /\ status[0] = "live" /\ loading.has
        /\ cfg.loader /\ cfg.cacheKey = "none") =>
       /\ Len(calls') = Len(calls) + 1
       /\ Last(calls').ev = evCount'
       /\ Last(calls').input = loading.input
       /\ \/ Emitted(0) = <<Loading(evCount')>> /\ Pending(0, evCount')
          \/ /\ Len(Emitted(0)) = 2
             /\ Emitted(0)[1] = Loading(evCount')
             /\ ~isLoading(Emitted(0)[2])
             /\ Emitted(0)[2].ev = evCount']_vars

\* C21: with the default overlap policy the root's raw follows
\* Idle, Loading, Settled, Loading, ...: no two settled envelopes without a
\* Loading between them, at most one settled envelope per causal event, a
\* source value or reload() in Settled emits Loading next, and raw never
\* terminates.
C21_RawStateMachine ==
  /\ [](cfg.mapOperator = "switchMap" =>
         /\ \A i \in 2..Len(hist[0]) : isLoading(hist[0][i - 1]) \/ isLoading(hist[0][i])
         /\ \A i, j \in Settled(0) : i # j => hist[0][i].ev # hist[0][j].ev
         /\ status[0] # "completed"
         /\ ~term[0])
  /\ [][(cfg.mapOperator = "switchMap" /\ status[0] = "live" /\ hist[0] # <<>>
           /\ ~isLoading(Last(hist[0]))
           /\ evCount' = evCount + 1 /\ source'.status = source.status) =>
          /\ Len(hist'[0]) > Len(hist[0])
          /\ hist'[0][Len(hist[0]) + 1] = Loading(evCount')]_vars

\* C22: a result loaded for an input with an empty cache key is never
\* stored: no write to a cache generation is made under the empty key, and no
\* generation ever holds an entry for it.
C22_EmptyKeyNotStored ==
  /\ \A w \in Range(writes) : w.key # NoKey
  /\ \A g \in 1..Len(gens) : ~MapHas(gens[g].map, NoKey)

\* The stored keys in the order of their last use, oldest first.
ByLastUse(r) == SelectSeq(r.used, LAMBDA k : k \in Keys(r.c))
KeyOrder(c) == [i \in 1..Len(c.map) |-> c.map[i][1]]
Stored(c, k) == IF k \in Keys(c) THEN MapGet(c.map, k) ELSE Null

C24_SetExistingKey ==
  [][(rc.made /\ rc' # rc /\ rc'.op.t = "set" /\ rc'.op.key \in Keys(rc.c)) =>
       /\ Keys(rc'.c) = Keys(rc.c)
       /\ Len(rc'.c.map) = Len(rc.c.map)
       /\ Stored(rc'.c, rc'.op.key) = rc'.op.value
       /\ \A k \in CacheKeys \ {rc'.op.key} : Stored(rc'.c, k) = Stored(rc.c, k)
       /\ Last(rc'.c.map) = <<rc'.op.key, rc'.op.value>>
       /\ KeyOrder(rc'.c) = Append(Remove(KeyOrder(rc.c), {rc'.op.key}), rc'.op.key)]_vars

\* The older of two entries was set again with another value.
C24_Witness ==
  /\ rc.made /\ Len(rc.c.map) = 2
  /\ rc.op.t = "set" /\ rc.op.had /\ rc.op.moved /\ rc.op.evicted = {}
  /\ rc.prev.t = "set" /\ rc.prev.key # rc.op.key
  /\ Last(rc.c.map) = <<rc.op.key, rc.op.value>>

\* C25: a cache constructed with capacity 0 stores nothing: it stays empty
\* under every set, and every get misses.
C25_CapacityZeroStoresNothing ==
  (rc.made /\ rc.size = 0) =>
    /\ rc.c.map = <<>>
    /\ rc.op.t = "get" => rc.op.ret = Null

\* On a cache of capacity 0 a key was set and then read.
C25_Witness ==
  /\ rc.made /\ rc.size = 0
  /\ rc.prev.t = "set"
  /\ rc.op.t = "get" /\ rc.op.key = rc.prev.key

\* The generation that was current when event e began.
GenAt(e) == CHOOSE g \in 1..Len(born) :
              born[g] <= e /\ \A h \in 1..Len(born) : born[h] <= e => h <= g
NewWrites == SubSeq(writes', Len(writes) + 1, Len(writes'))

\* C26: reload() leaves every existing generation as it is and makes a new,
\* empty one current (it holds nothing but what the reload's own event
\* stored); under every overlap policy a result is written into the
\* generation that was current when its event began; and the contents of a
\* generation change only by a write made for an event of that generation.
C26_WritesStayInTheirGeneration ==
  /\ [](\A w \in Range(writes) : w.gen = GenAt(w.ev))
  /\ [][cache' # cache =>
          /\ cache' = Len(gens) + 1
          /\ Len(gens') = Len(gens) + 1
          /\ \A g \in 1..Len(gens) : gens'[g] = gens[g]
          /\ \A k \in Keys(gens'[cache']) :
               \E w \in Range(NewWrites) : w.key = k /\ w.gen = cache' /\ w.ev = evCount']_vars
  /\ [][\A g \in 1..Len(gens) :
          (\E k \in Keys(gens[g]) \cup Keys(gens'[g]) : Stored(gens'[g], k) # Stored(gens[g], k)) =>
            \E w \in Range(NewWrites) : w.gen = g]_vars

\* A loader call that began before a reload() delivered its result after it:
\* the result is in the superseded generation and the current one is empty.
C26_Witness ==
  /\ cfg.cacheKey = "id"
  /\ cache = 2
  /\ gens[2].map = <<>>
  /\ \E w \in Range(writes) : w.gen = 1 /\ w.newest >= born[2] /\ w.key \in Keys(gens[1])

\* ------------------------------------------------------------ diagnostics
\* The envelopes node n's raw emits in the step: the last ones of its record.
EmittedBy(n) ==
  SubSeq(hist'[n], Len(hist'[n]) - (sent'[n] - sent[n]) + 1, Len(hist'[n]))

ErrorsBy(n) == SelectSeq(EmittedBy(n), isError)
NewWarns == SubSeq(warns', Len(warns) + 1, Len(warns'))
WarnsBy(n) == SelectSeq(NewWarns, LAMBDA w : w.node = n)
WarnOf(n, env) == [node |-> n, index |-> Index[n], error |-> env.p, ev |-> env.ev]

RECURSIVE ChainWarns(_)
\* The warnings of the chain root.pipeError(...).pipeValue(...) for the root's
\* Error envelopes es, one after the other: root, pipeError node, pipeValue node.
ChainWarns(es) ==
  IF es = <<>> THEN <<>>
  ELSE LET e == Head(es)
           m == Error(ErrorMap(e.p), e.ev)
       IN <<WarnOf(0, e), WarnOf(2, m), WarnOf(3, m)>> \o ChainWarns(Tail(es))

ActiveErrorSubscriptions == {n \in Nodes : <<"e", n>> \in Range(subs[n])}

\* C30: the lineage's counter is the number of active error$ subscriptions,
\* the end of a subscription by completion or failure of the stream included.
C30_CounterIsActiveSubscriptions ==
  meta >= 0 /\ meta = Cardinality(ActiveErrorSubscriptions)

\* Input i's lineage has a consumer of error$, on the input or on the combined
\* node built from it, before the step or from the step's beginning.
Handled(i) ==
  \/ i \in comb.esubs \/ 0 \in comb.esubs
  \/ comb'.meta[i] > comb.meta[i]
CombNewWarns == SubSeq(comb'.warns, Len(comb.warns) + 1, Len(comb'.warns))

CallsAt(log, k) == SelectSeq(log, LAMBDA c : c.at = k /\ c.cb # "complete")
Names(log) == [i \in 1..Len(log) |-> <<log[i].cb, log[i].arg>>]

\* C31: a next-function given to subscribe is called for the Value envelopes
\* only; an observer gets pending(true) for a Loading, next(value) and then
\* pending(false) for a Value, error(payload) and then pending(false) for an
\* Error, the calls of an earlier envelope before those of a later one.
C31_SubscribeDispatch ==
  /\ \A k \in 1..Len(fac.raw) :
        LET e == fac.raw[k]
        IN /\ Names(CallsAt(fac.fn, k)) = IF e.k = "V" THEN <<<<"next", e.p>>>> ELSE <<>>
           /\ Names(CallsAt(fac.ob, k)) =
                CASE e.k = "L" -> <<<<"pending", TRUE>>>>
                  [] e.k = "V" -> <<<<"next", e.p>>, <<"pending", FALSE>>>>
                  [] OTHER -> <<<<"error", e.p>>, <<"pending", FALSE>>>>
  /\ \A log \in {fac.fn, fac.ob} :
        /\ \A i \in 1..Len(log) : log[i].at \in 0..Len(fac.raw)
        /\ \A i, j \in 1..Len(log) : i < j => log[i].at <= log[j].at

\* Loading, a Value and an Error went to both consumers.
C31_Witness ==
  /\ Len(fac.raw) = 3
  /\ fac.raw[1].k = "L" /\ fac.raw[2].k = "V" /\ fac.raw[3].k = "E"
  /\ Len(fac.fn) = 1
  /\ Len(fac.ob) = 5

\* The places of raw that hold an envelope satisfying test, in order.
Places(test(_)) == SelectSeq([k \in 1..Len(fac.raw) |-> k], LAMBDA k : test(fac.raw[k]))

GenAtNext(e) == CHOOSE g \in 1..Len(born') :
                  born'[g] <= e /\ \A h \in 1..Len(born') : born'[h] <= e => h <= g

\* C33: under every overlap policy, the result of a loader call whose cache
\* generation reload() has replaced in the meantime is dropped: raw emits no
\* Value for an event of a generation that is not the current one.
C33_StaleResultsDropped ==
  [][\A k \in 1..Len(EmittedBy(0)) :
       isSuccess(EmittedBy(0)[k]) => GenAtNext(EmittedBy(0)[k].ev) = cache']_vars

\* C34: whether a keyed input is served from the cache does not depend on the
\* value that was stored: the engine's test of what cache.get returns succeeds
\* for every entry a generation holds, and the loader is not invoked for a
\* key its generation holds, whatever the stored result is.
C34_HitForEveryStoredValue ==
  /\ \A g \in 1..Len(gens) :
       \A k \in Keys(gens[g]) \ {NoKey} : Truthy(CacheGetValue(gens[g], k))
  /\ \A c \in Range(calls) : c.key # NoKey => ~c.held

\* The key of the source's last value.
LastKey == cacheKey(cfg.cacheKey, source.last)

\* C35: the cache generation outlives the subscriptions. When a consumer
\* subscribes to the engine that has none, and the current generation holds the
\* key of the source's value, the value is served from the cache: the loader
\* is not invoked and raw emits Loading and the stored Value.
C35_CacheSurvivesTeardown ==
  [][(/\ status[0] = "idle" /\ status'[0] = "live"
      /\ source.status = "open"
      /\ LastKey \in Keys(gens[cache]) \ {NoKey}) =>
        /\ calls' = calls
        /\ Len(hist'[0]) = 2
        /\ isLoading(hist'[0][1])
        /\ hist'[0][2] = Value(Stored(gens[cache], LastKey), evCount')]_vars

\* The pipeValue node shows Loading while its parent has settled.
Lagging ==
  /\ status[1] = "live" /\ status[0] = "live"
  /\ hist[0] # <<>> /\ ~isLoading(Last(hist[0]))
  /\ hist[1] # <<>> /\ isLoading(Last(hist[1]))

\* C36: on a pipeValue node a Loading is followed by a settled envelope once
\* the parent has settled, the operators giving a result for every Value,
\* whether or not the chain of an earlier Value has completed.
C36_LoadingIsFollowedBySettled == Lagging ~> ~Lagging
\* ---------------------------------------------------------------- C37
\* The calls of the log function made in this step that hand it a response,
\* and the settled envelopes of a sequence of envelopes.
NewLogs == SubSeq(logs', Len(logs) + 1, Len(logs'))
ResponseCalls(s) == SelectSeq(s, LAMBDA c : c.value.what # "input")
SettledOf(s) == SelectSeq(s, LAMBDA e : ~isLoading(e))

\* C37: with a log function given to the engine, the function is called
\* exactly once for every settled envelope of the engine's node, with that
\* envelope's response, the engine's name and index 0, and never for a
\* Loading envelope.
C37_LogOncePerSettledEnvelope ==
  [][LET cs == ResponseCalls(NewLogs)
         es == SettledOf(EmittedBy(0))
     IN /\ Len(cs) = Len(es)
        /\ \A i \in 1..Len(cs) :
             /\ cs[i].value = flattenResponse(es[i])
             /\ cs[i].name = Name /\ cs[i].index = 0]_vars

\* ---------------------------------------------------------------- C38
\* The source has completed and this connection of raw has a value of it
\* (without an input the source is of(true), which completes at once).
SourceDone == cfg.input = "absent" \/ source.status = "completed"
DoneAfterValue == SourceDone /\ status[0] = "live" /\ loading.has

\* C38: the completion of a source that has emitted a value leaves raw open
\* and emits nothing, and every reload() after it emits Loading and
\* evaluates the last source value again: a settled envelope of the reload
\* follows at once, or the loader call made for it is pending.
C38_ReloadAfterSourceCompletion ==
  /\ [][(status[0] = "live" /\ loading.has /\ source.status = "open"
          /\ source'.status = "completed")
        => status'[0] = "live" /\ hist'[0] = hist[0]]_vars
  /\ [][(DoneAfterValue /\ cache' # cache)
        => LET es == EmittedBy(0)
           IN /\ status'[0] = "live"
              /\ es # <<>> /\ es[1] = Loading(evCount')
              /\ \/ Len(es) = 2 /\ ~isLoading(es[2]) /\ es[2].ev = evCount'
                 \/ /\ Len(es) = 1
                    /\ \E i \in 1..Len(valueOrError'.jobs) :
                         /\ valueOrError'.jobs[i].ev = evCount'
                         /\ valueOrError'.jobs[i].input = loading.input]_vars

\* ---------------------------------------------------------------- C39
\* The capacity of the cache by its size (in halves): the greatest whole
\* number that is not above the size, and 0 if that is negative.
WholePart == CHOOSE n \in -2..3 : 2 * n <= rc.size /\ rc.size < 2 * n + 2
Capacity == IF WholePart > 0 THEN WholePart ELSE 0

\* C39: after any sequence of set, get and reset calls the cache holds at
\* most max(0, floor(size)) entries and no key twice.
C39_AtMostCapacityEachKeyOnce ==
  rc.made =>
    /\ Len(rc.c.map) <= Capacity
    /\ \A i, j \in 1..Len(rc.c.map) : rc.c.map[i][1] = rc.c.map[j][1] => i = j

\* A cache made with size 1.5 was full, was reset, and a key was set again.
C39_Witness ==
  /\ rc.made /\ rc.size = 3
  /\ rc.prev.t = "reset" /\ rc.prev.evicted # {}
  /\ rc.op.t = "set" /\ Len(rc.c.map) = 1

\* ---------------------------------------------------------------- C40
\* C40: the combined node emits nothing until every input has emitted: in
\* the step that connects it, input 1 emits all it has before input 2 is
\* subscribed, and the combined node emits one envelope for each envelope of
\* input 2 and none for those of input 1, the first one computed from the
\* last envelope of input 1; from then on it emits one envelope for each
\* envelope an input emits.
C40_SilentUntilEveryInputEmitted ==
  /\ [](comb.hist # <<>> => ArgsEmitted)
  /\ [][(comb.status # "live" /\ comb'.status = "live") =>
          /\ comb'.args[1].hist # <<>> /\ comb'.args[2].hist # <<>>
          /\ Len(comb'.hist) = Len(comb'.args[2].hist)
          /\ \A k \in 1..Len(comb'.hist) :
               /\ comb'.from[k][1] = Last(comb'.args[1].hist).ev
               /\ comb'.from[k][2] = comb'.args[2].hist[k].ev]_vars
  /\ [][(comb.status = "live" /\ comb'.status = "live") =>
          Len(comb'.hist)
            = Len(comb.hist) + (Len(comb'.args[1].hist) - Len(comb.args[1].hist))
                             + (Len(comb'.args[2].hist) - Len(comb.args[2].hist))]_vars

\* The combined node was connected and both inputs emitted Loading and a
\* Value at once: four envelopes of the inputs, two of the combined node.
C40_Witness ==
  /\ comb.status = "live"
  /\ Len(comb.args[1].hist) = 2 /\ isSuccess(comb.args[1].hist[2])
  /\ Len(comb.args[2].hist) = 2 /\ isSuccess(comb.args[2].hist[2])
  /\ Len(comb.hist) = 2 /\ isLoading(comb.hist[1]) /\ isSuccess(comb.hist[2])

====
